---------------------------- MODULE Spec2Model ----------------------------
(***************************************************************************)
(* Validated string types of models/aws-dev/modeled_types.rs:              *)
(* SingleLineString, Identifier and Url, each a struct with one private    *)
(* field `inner: String`, a hand-written TryFrom<&str> that validates, and *)
(* the traits the macro string_impls_for! generates.                       *)
(*                                                                         *)
(* Text is a sequence of Unicode code points.  String literals of the      *)
(* source are written out as their code points, so that format! is real    *)
(* concatenation.                                                          *)
(***************************************************************************)
EXTENDS Naturals, Sequences, FiniteSets

VARIABLES
  ty,          \* the type the macro is instantiated for ($for_str)
  strictIpv4,  \* whether the linked url crate rejects a malformed IPv4 host
  vals,        \* the live values: slot -> <<>> (none) or <<[inner |-> text]>>
  last,        \* the last call and what it returned
  subject      \* SpecLaw: the untrusted text the caller holds

vars == <<ty, strictIpv4, vals, last, subject>>

(***************************************************************************)
(* Bounds of the model.                                                    *)
(***************************************************************************)
\* Longest text handed to a constructor in the life-cycle specification Spec.
MaxLen == 1
\* Longest text put through the pipeline of the specification SpecLaw.
MaxInputLen == 3

(***************************************************************************)
(* Code points.                                                            *)
(***************************************************************************)
LF == 10
CR == 13
VT == 11
FF == 12
NEL == 133
LS == 8232
PS == 8233
Hyphen == 45
\* Characters of the texts the unit tests construct from.
LetterA == 97
Digit0 == 48
Underscore == 95
Slash == 47
Dot == 46
Colon == 58
AtSign == 64
Space == 32
Katakana == 12479

\* Mutant: only what str::lines() splits at counts as a line terminator.
line_terminators_of_lines == <<LF, CR>>

\* let line_terminators = [...]
line_terminators == <<LF, CR, VT, FF, NEL, LS, PS>>

\* The three instantiations string_impls_for!($for, $for_str); a kind is
\* named by its $for_str.
Kinds == {"SingleLineString", "Identifier", "Url"}

\* $for_str as text.
ForStr(k) ==
  CASE k = "SingleLineString" ->
         <<83, 105, 110, 103, 108, 101, 76, 105, 110, 101,
           83, 116, 114, 105, 110, 103>>
    [] k = "Identifier" -> <<73, 100, 101, 110, 116, 105, 102, 105, 101, 114>>
    [] k = "Url" -> <<85, 114, 108>>

(***************************************************************************)
(* Helpers on text.                                                        *)
(***************************************************************************)
Range(s) == {s[i] : i \in 1..Len(s)}

\* str::contains(&[char]): some character of the text is in the slice.
Contains(s, chars) == \E i \in 1..Len(s) : s[i] \in Range(chars)

\* The text from position i on, and the text before position i.
From(s, i) == SubSeq(s, i, Len(s))
Before(s, i) == SubSeq(s, 1, i - 1)

\* Position of the first (last) character of s that is in set S; Len(s) + 1
\* (0) when there is none.
FirstIn(s, S) ==
  IF \E i \in 1..Len(s) : s[i] \in S
  THEN CHOOSE i \in 1..Len(s) : s[i] \in S /\ \A j \in 1..(i - 1) : s[j] \notin S
  ELSE Len(s) + 1
LastIn(s, S) ==
  IF \E i \in 1..Len(s) : s[i] \in S
  THEN CHOOSE i \in 1..Len(s) :
         s[i] \in S /\ \A j \in (i + 1)..Len(s) : s[j] \notin S
  ELSE 0

\* char::is_ascii
IsAscii(c) == c <= 127
IsAsciiDigit(c) == c \in 48..57
IsAsciiAlpha(c) == c \in 65..90 \/ c \in 97..122
\* The non-ASCII characters of the model's alphabets that Unicode classes as
\* Alphabetic or Numeric.
NonAsciiAlphanumerics == {Katakana}
\* char::is_alphanumeric
IsAlphanumeric(c) ==
  IsAsciiDigit(c) \/ IsAsciiAlpha(c) \/ c \in NonAsciiAlphanumerics

(***************************************************************************)
(* error::Error and its snafu display.                                     *)
(***************************************************************************)
ErrorVariants ==
  {"StringContainsLineTerminator", "InvalidBase64", "InvalidIdentifier",
   "InvalidUrl", "BigPattern", "InvalidClusterName"}

StringContainsLineTerminator == [variant |-> "StringContainsLineTerminator"]
InvalidIdentifier(input) == [variant |-> "InvalidIdentifier", input |-> input]
InvalidUrl(input) == [variant |-> "InvalidUrl", input |-> input]

\* #[snafu(display(...))] of the variants the validators build.
ErrorDisplay(e) ==
  CASE e.variant = "StringContainsLineTerminator" ->
         \* "Can't create SingleLineString containing line terminator"
         <<67, 97, 110, 39, 116, 32, 99, 114, 101, 97, 116, 101, 32, 83,
           105, 110, 103, 108, 101, 76, 105, 110, 101, 83, 116, 114, 105,
           110, 103, 32, 99, 111, 110, 116, 97, 105, 110, 105, 110, 103,
           32, 108, 105, 110, 101, 32, 116, 101, 114, 109, 105, 110, 97,
           116, 111, 114>>
    [] e.variant = "InvalidIdentifier" ->
         \* "Identifiers may only contain ASCII alphanumerics plus hyphens,
         \*  received '{input}'"
         <<73, 100, 101, 110, 116, 105, 102, 105, 101, 114, 115, 32, 109,
           97, 121, 32, 111, 110, 108, 121, 32, 99, 111, 110, 116, 97, 105,
           110, 32, 65, 83, 67, 73, 73, 32, 97, 108, 112, 104, 97, 110, 117,
           109, 101, 114, 105, 99, 115, 32, 112, 108, 117, 115, 32, 104,
           121, 112, 104, 101, 110, 115, 44, 32, 114, 101, 99, 101, 105,
           118, 101, 100, 32, 39>> \o e.input \o <<39>>
    [] e.variant = "InvalidUrl" ->
         \* "Given invalid URL '{input}'"
         <<71, 105, 118, 101, 110, 32, 105, 110, 118, 97, 108, 105, 100,
           32, 85, 82, 76, 32, 39>> \o e.input \o <<39>>

\* Result<Self, error::Error>
Ok(inner) == [ok |-> TRUE, value |-> [inner |-> inner]]
Err(e) == [ok |-> FALSE, error |-> e]


(***************************************************************************)
(* input.parse::<url::Url>(): the url crate, which follows the WHATWG URL  *)
(* algorithm with no base URL.  Modelled for texts over UrlAlphabet (ASCII *)
(* letter, digit, '-', '.', ':', '/', '@', space) after the scheme-less    *)
(* retry's "http://": these cannot spell "file:", '[' (IPv6), '%', '?',    *)
(* '#' or a digit other than '0', so a number of an IPv4 host is always 0. *)
(* Only success or failure is modelled: the code discards the parsed URL.  *)
(***************************************************************************)
\* Leading and trailing C0 control or space is trimmed.
Trim(s) ==
  LET keep == {i \in 1..Len(s) : s[i] > Space}
  IN IF keep = {} THEN <<>>
     ELSE SubSeq(s, CHOOSE i \in keep : \A j \in keep : i <= j,
                    CHOOSE i \in keep : \A j \in keep : i >= j)

\* ASCII tab and newline are removed everywhere.
RemoveTabNewline(s) == SelectSeq(s, LAMBDA c : c \notin {9, LF, CR})

IsSchemeChar(c) == IsAsciiAlpha(c) \/ IsAsciiDigit(c) \/ c \in {43, Hyphen, Dot}

\* Position of the first character that cannot belong to a scheme.
SchemeEnd(s) == FirstIn(s, {c \in Range(s) : ~IsSchemeChar(c)})

\* Scheme start state and scheme state: an ASCII letter, scheme characters,
\* then ':'.  Anything else is a relative URL, which fails without a base.
HasScheme(s) ==
  /\ s # <<>>
  /\ IsAsciiAlpha(s[1])
  /\ SchemeEnd(s) <= Len(s)
  /\ s[SchemeEnd(s)] = Colon

Lower(s) == [i \in 1..Len(s) |-> IF s[i] \in 65..90 THEN s[i] + 32 ELSE s[i]]

\* "http", "https", "ws", "wss", "ftp"
SpecialSchemes ==
  {<<104, 116, 116, 112>>, <<104, 116, 116, 112, 115>>, <<119, 115>>,
   <<119, 115, 115>>, <<102, 116, 112>>}

\* Code points no host may contain: NUL, tab, LF, CR, space, '#', '/', ':',
\* '?', '@', '[', '\', ']'.
ForbiddenHostCodePoints ==
  {0, 9, LF, CR, Space, 35, Slash, Colon, 63, AtSign, 91, 92, 93}

RECURSIVE DecValue(_)
DecValue(s) ==
  IF s = <<>> THEN 0 ELSE 10 * DecValue(Before(s, Len(s))) + (s[Len(s)] - 48)

\* Port state: ASCII digits only, at most 65535; an empty port is allowed.
PortOk(port) ==
  /\ \A i \in 1..Len(port) : IsAsciiDigit(port[i])
  /\ DecValue(port) <= 65535

RECURSIVE Split(_)
\* The host split at its dots.
Split(s) ==
  LET d == FirstIn(s, {Dot})
  IN IF d > Len(s) THEN <<s>> ELSE <<Before(s, d)>> \o Split(From(s, d + 1))

\* The parts an IPv4 host is read from: one trailing empty part is dropped.
Ipv4Parts(host) ==
  LET parts == Split(host)
  IN IF Len(parts) > 1 /\ parts[Len(parts)] = <<>>
     THEN Before(parts, Len(parts)) ELSE parts

IsHexDigit(c) == IsAsciiDigit(c) \/ c \in 65..70 \/ c \in 97..102

\* The IPv4 number parser accepts decimal, 0-prefixed octal and 0x hex.
IsIpv4Number(p) ==
  /\ p # <<>>
  /\ \/ /\ Len(p) >= 2 /\ p[1] = Digit0 /\ p[2] \in {88, 120}
        /\ \A i \in 3..Len(p) : IsHexDigit(p[i])
     \/ /\ Len(p) >= 2 /\ p[1] = Digit0
        /\ \A i \in 2..Len(p) : p[i] \in 48..55
     \/ /\ ~(Len(p) >= 2 /\ p[1] = Digit0)
        /\ \A i \in 1..Len(p) : IsAsciiDigit(p[i])

\* The host's last part is a number, so that the host is read as IPv4.
EndsInNumber(host) ==
  LET parts == Ipv4Parts(host)
      lastPart == parts[Len(parts)]
  IN \/ lastPart # <<>> /\ \A i \in 1..Len(lastPart) : IsAsciiDigit(lastPart[i])
     \/ IsIpv4Number(lastPart)

\* IPv4 parser: at most four parts, each a number.  Releases of the crate
\* before the "ends in a number" rule read such a host as a domain instead.
Ipv4Ok(host) ==
  \/ ~strictIpv4
  \/ /\ Len(Ipv4Parts(host)) <= 4
     /\ \A i \in 1..Len(Ipv4Parts(host)) : IsIpv4Number(Ipv4Parts(host)[i])

\* Host parsing: a domain (special scheme) or an opaque host.
HostOk(host, special) ==
  /\ ~(\E i \in 1..Len(host) : host[i] \in ForbiddenHostCodePoints)
  /\ (special /\ host # <<>> /\ EndsInNumber(host)) => Ipv4Ok(host)

\* Authority, host and port states on the text between the slashes and the
\* path: userinfo ends at the last '@', the port starts at the first ':'.
AuthorityOk(auth, special) ==
  LET at == LastIn(auth, {AtSign})
      hostport == From(auth, at + 1)
      colon == FirstIn(hostport, {Colon})
      host == Before(hostport, colon)
      port == From(hostport, colon + 1)
  IN /\ ~(at > 0 /\ hostport = <<>>)
     /\ ~(colon <= Len(hostport) /\ host = <<>>)
     /\ ~(special /\ host = <<>>)
     /\ PortOk(port)
     /\ HostOk(host, special)

\* input.parse::<url::Url>().is_ok()
ParseUrl(input) ==
  LET s == RemoveTabNewline(Trim(input))
  IN /\ HasScheme(s)
     /\ LET rest == From(s, SchemeEnd(s) + 1)
        IN IF Lower(Before(s, SchemeEnd(s))) \in SpecialSchemes
           THEN \* any run of slashes is skipped; the host must not be empty
                \* and the authority ends at '/', '\', '?' or '#'
                LET r == From(rest, FirstIn(rest, Range(rest) \ {Slash, 92}))
                IN AuthorityOk(Before(r, FirstIn(r, {Slash, 92, 63, 35})), TRUE)
           ELSE IF Len(rest) >= 2 /\ rest[1] = Slash /\ rest[2] = Slash
                THEN LET r == From(rest, 3)
                     IN AuthorityOk(Before(r, FirstIn(r, {Slash, 63, 35})), FALSE)
                ELSE \* a path or an opaque path: never fails
                     TRUE

(***************************************************************************)
(* The three validating constructors, impl TryFrom<&str>.                  *)
(***************************************************************************)
\* str::to_string: an owned copy of the text.
to_string(s) == s

\* Mutant: the stored copy is trimmed of surrounding white space.
SingleLineString_try_from_trimmed(input) ==
  IF Contains(input, line_terminators)
  THEN Err(StringContainsLineTerminator)
  ELSE Ok(Trim(input))

SingleLineString_try_from(input) ==
  IF Contains(input, line_terminators)
  THEN Err(StringContainsLineTerminator)
  ELSE Ok(to_string(input))

\* Mutant: the error selector is the one of Url.
Identifier_try_from_wrong_selector(input) ==
  IF \A i \in 1..Len(input) :
       (IsAscii(input[i]) /\ IsAlphanumeric(input[i])) \/ input[i] = Hyphen
  THEN Ok(to_string(input))
  ELSE Err(InvalidUrl(to_string(input)))

\* Mutant: the c.is_ascii() test is left out.
Identifier_try_from_any_alphanumeric(input) ==
  IF \A i \in 1..Len(input) : IsAlphanumeric(input[i]) \/ input[i] = Hyphen
  THEN Ok(to_string(input))
  ELSE Err(InvalidIdentifier(to_string(input)))

Identifier_try_from(input) ==
  IF \A i \in 1..Len(input) :
       (IsAscii(input[i]) /\ IsAlphanumeric(input[i])) \/ input[i] = Hyphen
  THEN Ok(to_string(input))
  ELSE Err(InvalidIdentifier(to_string(input)))

\* "http://"
HttpPrefix == <<104, 116, 116, 112, 58, 47, 47>>

\* Mutant: the retry stores the text it parsed.
Url_try_from_stores_prefixed(input) ==
  IF ParseUrl(input)
  THEN Ok(to_string(input))
  ELSE LET prefixed == HttpPrefix \o input
       IN IF ParseUrl(prefixed)
          THEN Ok(prefixed)
          ELSE Err(InvalidUrl(to_string(input)))

\* Mutant: the error reports the text the retry parsed.
Url_try_from_reports_prefixed(input) ==
  IF ParseUrl(input)
  THEN Ok(to_string(input))
  ELSE LET prefixed == HttpPrefix \o input
       IN IF ParseUrl(prefixed)
          THEN Ok(to_string(input))
          ELSE Err(InvalidUrl(prefixed))

Url_try_from(input) ==
  IF ParseUrl(input)
  THEN Ok(to_string(input))
  ELSE LET prefixed == HttpPrefix \o input
       IN IF ParseUrl(prefixed)
          THEN Ok(to_string(input))
          ELSE Err(InvalidUrl(to_string(input)))

\* <$for as TryFrom<&str>>::try_from
try_from(k, input) ==
  CASE k = "SingleLineString" -> SingleLineString_try_from(input)
    [] k = "Identifier" -> Identifier_try_from(input)
    [] k = "Url" -> Url_try_from(input)

(***************************************************************************)
(* The traits string_impls_for! generates, as functions of the value.      *)
(***************************************************************************)
\* <$for as TryFrom<String>>::try_from: Self::try_from(input.as_ref())
try_from_String(k, input) == try_from(k, input)

\* A value of the serde data model, as a Serializer receives it and a
\* Deserializer hands it out: a string, or something that is not a string.
Str(text) == [ty |-> "str", text |-> text]
Unit == [ty |-> "unit"]

\* An error of the data format, D::Error::custom(msg).
Custom(msg) == [variant |-> "custom", msg |-> msg]

\* String::deserialize(deserializer): a string value yields its text; any
\* other value is serde's invalid_type error,
\* "invalid type: unit value, expected a string".
String_deserialize(v) ==
  IF v.ty = "str"
  THEN [ok |-> TRUE, value |-> v.text]
  ELSE Err(Custom(<<105, 110, 118, 97, 108, 105, 100, 32, 116, 121, 112,
                    101, 58, 32, 117, 110, 105, 116, 32, 118, 97, 108, 117,
                    101, 44, 32, 101, 120, 112, 101, 99, 116, 101, 100, 32,
                    97, 32, 115, 116, 114, 105, 110, 103>>))

\* Mutant: the message leaves out the name of the type.
UnableToDeserialize_unnamed(k, e) ==
  <<85, 110, 97, 98, 108, 101, 32, 116, 111, 32, 100, 101, 115, 101, 114,
    105, 97, 108, 105, 122, 101, 58, 32>> \o ErrorDisplay(e)

\* format!("Unable to deserialize into {}: {}", $for_str, e)
UnableToDeserialize(k, e) ==
  <<85, 110, 97, 98, 108, 101, 32, 116, 111, 32, 100, 101, 115, 101, 114,
    105, 97, 108, 105, 122, 101, 32, 105, 110, 116, 111, 32>>
  \o ForStr(k) \o <<58, 32>> \o ErrorDisplay(e)

\* Mutant: the deserialized string is wrapped without validation.
deserialize_unvalidated(k, v) ==
  LET original == String_deserialize(v)
  IN IF ~original.ok THEN original ELSE Ok(original.value)

\* <$for as Deserialize>::deserialize
deserialize(k, v) ==
  LET original == String_deserialize(v)
  IN IF ~original.ok THEN original
     ELSE LET r == try_from_String(k, original.value)
          IN IF r.ok THEN r ELSE Err(Custom(UnableToDeserialize(k, r.error)))

\* Mutant: the text is normalised on the way out.
serialize_normalised(x) == Str(Trim(x.inner))

\* <$for as Serialize>::serialize: serializer.serialize_str(&self.inner)
serialize(x) == Str(x.inner)

\* Deref::deref, Borrow<String>::borrow, Borrow<str>::borrow, AsRef::as_ref
deref(x) == x.inner
borrow_String(x) == x.inner
borrow_str(x) == x.inner
as_ref(x) == x.inner

\* fmt::Display::fmt: write!(f, "{}", self.inner)
fmt(x) == x.inner

\* From<$for> for String
into_String(x) == x.inner

\* #[derive(Clone)]
clone(x) == [inner |-> x.inner]

\* Mutant: a hand-written comparison that looks at the lengths only.
eq_by_length(x, y) == Len(x.inner) = Len(y.inner)

\* #[derive(PartialEq, Eq)]: the fields are compared.
eq(x, y) == x.inner = y.inner

\* The UTF-8 encoding of a code point (up to three bytes) and of a text.
Utf8Char(c) ==
  IF c < 128 THEN <<c>>
  ELSE IF c < 2048 THEN <<192 + (c \div 64), 128 + (c % 64)>>
  ELSE <<224 + (c \div 4096), 128 + ((c \div 64) % 64), 128 + (c % 64)>>
RECURSIVE Utf8(_)
Utf8(s) == IF s = <<>> THEN <<>> ELSE Utf8Char(s[1]) \o Utf8(From(s, 2))

\* <str as Hash>::hash: the bytes written to the Hasher are the text's
\* UTF-8 bytes and then 0xff.
str_hash(s) == Utf8(s) \o <<255>>

\* #[derive(Hash)]: the fields are hashed in turn.
hash(x) == str_hash(x.inner)

\* The traits of each type: written by hand, derived, generated by the macro.
HandWrittenTraits == {"TryFrom<&str>"}
DerivedTraits == {"Debug", "Clone", "Eq", "PartialEq", "Hash"}
MacroTraits ==
  {"TryFrom<String>", "Deserialize", "Serialize", "Deref", "Borrow<String>",
   "Borrow<str>", "AsRef<str>", "Display", "From<$for> for String"}
Traits == HandWrittenTraits \cup DerivedTraits \cup MacroTraits

(***************************************************************************)
(* The inputs of the model.                                                *)
(***************************************************************************)
\* The characters the texts of SpecLaw are drawn from, for each kind: the
\* characters its validator tells apart.
Alphabet(k) ==
  CASE k = "SingleLineString" ->
         {LF, CR, VT, FF, NEL, LS, PS, LetterA, Space}
    [] k = "Identifier" ->
         {LetterA, Digit0, Hyphen, Underscore, Slash, LF, Katakana}
    [] k = "Url" ->
         {LetterA, Digit0, Hyphen, Dot, Colon, Slash, AtSign, Space}

\* The characters the texts of Spec are drawn from: for each kind, some that
\* its validator accepts and some that it rejects.
LifeAlphabet(k) ==
  CASE k = "SingleLineString" -> {LetterA, Katakana, LF, PS}
    [] k = "Identifier" -> {LetterA, Hyphen, Underscore, Katakana}
    [] k = "Url" -> {LetterA, Dot, Colon, AtSign}

TextsUpTo(A, n) == UNION {[1..m -> A] : m \in 0..n}

\* The slots a caller keeps values in: binary operations need two.
Slots == {1, 2}

(***************************************************************************)
(* State.                                                                  *)
(***************************************************************************)
Free(s) == vals[s] = <<>>
Live(s) == vals[s] # <<>>
Value(s) == vals[s][1]

NoInput == [ty |-> "none"]
NoError == [variant |-> "none"]
NoOutput == [ty |-> "none"]

Call(op, slot, other, input, ok, err, out) ==
  [op |-> op, slot |-> slot, other |-> other, input |-> input, ok |-> ok,
   err |-> err, out |-> out]

\* A call that returns a Result<Self, _> into slot s.
Construct(op, s, input, r) ==
  /\ vals' = IF r.ok THEN [vals EXCEPT ![s] = <<r.value>>] ELSE vals
  /\ last' = Call(op, s, 0, input, r.ok, IF r.ok THEN NoError ELSE r.error,
                  NoOutput)
  /\ UNCHANGED <<ty, strictIpv4, subject>>

\* A call on &self of slot s (and of slot o) that returns out.
Read(op, s, o, out) ==
  /\ last' = Call(op, s, o, NoInput, TRUE, NoError, out)
  /\ UNCHANGED <<ty, strictIpv4, vals, subject>>

(***************************************************************************)
(* Actions: one per trait method.                                          *)
(***************************************************************************)
TryFromStr(s, t) ==
  /\ Free(s)
  /\ Construct("try_from_str", s, Str(t), try_from(ty, t))

TryFromString(s, t) ==
  /\ Free(s)
  /\ Construct("try_from_String", s, Str(t), try_from_String(ty, t))

Deserialize(s, v) ==
  /\ Free(s)
  /\ Construct("deserialize", s, v, deserialize(ty, v))

Serialize(s) ==
  /\ Live(s)
  /\ Read("serialize", s, 0, serialize(Value(s)))

Deref(s) ==
  /\ Live(s)
  /\ Read("deref", s, 0, Str(deref(Value(s))))

BorrowString(s) ==
  /\ Live(s)
  /\ Read("borrow_String", s, 0, Str(borrow_String(Value(s))))

BorrowStr(s) ==
  /\ Live(s)
  /\ Read("borrow_str", s, 0, Str(borrow_str(Value(s))))

AsRef(s) ==
  /\ Live(s)
  /\ Read("as_ref", s, 0, Str(as_ref(Value(s))))

Display(s) ==
  /\ Live(s)
  /\ Read("fmt", s, 0, Str(fmt(Value(s))))

Hash(s) ==
  /\ Live(s)
  /\ Read("hash", s, 0, [ty |-> "bytes", bytes |-> hash(Value(s))])

Eq(s, o) ==
  /\ Live(s) /\ Live(o)
  /\ Read("eq", s, o, [ty |-> "bool", value |-> eq(Value(s), Value(o))])

\* x.clone() into a free slot d.
Clone(s, d) ==
  /\ Live(s) /\ Free(d)
  /\ vals' = [vals EXCEPT ![d] = <<clone(Value(s))>>]
  /\ last' = Call("clone", s, d, NoInput, TRUE, NoError, NoOutput)
  /\ UNCHANGED <<ty, strictIpv4, subject>>

\* String::from(x): the value is moved into the conversion.
IntoString(s) ==
  /\ Live(s)
  /\ vals' = [vals EXCEPT ![s] = <<>>]
  /\ last' = Call("into_String", s, 0, NoInput, TRUE, NoError,
                  Str(into_String(Value(s))))
  /\ UNCHANGED <<ty, strictIpv4, subject>>

\* The value goes out of scope.
Drop(s) ==
  /\ Live(s)
  /\ vals' = [vals EXCEPT ![s] = <<>>]
  /\ last' = Call("drop", s, 0, NoInput, TRUE, NoError, NoOutput)
  /\ UNCHANGED <<ty, strictIpv4, subject>>

(***************************************************************************)
(* Spec: values of one type are constructed from any text, used and        *)
(* dropped in any order.                                                   *)
(***************************************************************************)
Start == Call("start", 0, 0, NoInput, TRUE, NoError, NoOutput)

Init ==
  /\ ty \in Kinds
  /\ strictIpv4 \in (IF ty = "Url" THEN BOOLEAN ELSE {FALSE})
  /\ vals = [s \in Slots |-> <<>>]
  /\ last = Start
  /\ subject = <<>>

Next ==
  \/ \E s \in Slots, t \in TextsUpTo(LifeAlphabet(ty), MaxLen) : TryFromStr(s, t)
  \/ \E s \in Slots, t \in TextsUpTo(LifeAlphabet(ty), MaxLen) : TryFromString(s, t)
  \/ \E s \in Slots, t \in TextsUpTo(LifeAlphabet(ty), MaxLen) : Deserialize(s, Str(t))
  \/ \E s \in Slots : Deserialize(s, Unit)
  \/ \E s \in Slots : Serialize(s)
  \/ \E s \in Slots : Deref(s)
  \/ \E s \in Slots : BorrowString(s)
  \/ \E s \in Slots : BorrowStr(s)
  \/ \E s \in Slots : AsRef(s)
  \/ \E s \in Slots : Display(s)
  \/ \E s \in Slots : Hash(s)
  \/ \E s, o \in Slots : Eq(s, o)
  \/ \E s, d \in Slots : Clone(s, d)
  \/ \E s \in Slots : IntoString(s)
  \/ \E s \in Slots : Drop(s)

Spec == Init /\ [][Next]_vars

(***************************************************************************)
(* SpecLaw: one text is put through every construction path, and the       *)
(* value, once constructed, is serialized and read back.                   *)
(***************************************************************************)
InitLaw ==
  /\ ty \in Kinds
  /\ strictIpv4 \in (IF ty = "Url" THEN BOOLEAN ELSE {FALSE})
  /\ vals = [s \in Slots |-> <<>>]
  /\ last = Start
  /\ subject \in TextsUpTo(Alphabet(ty), MaxInputLen)

\* The serialized form just written is deserialized into the other slot.
ReadBack ==
  /\ last.op = "serialize"
  /\ Deserialize(2, last.out)

NextLaw ==
  \/ TryFromStr(1, subject)
  \/ TryFromString(1, subject)
  \/ Deserialize(1, Str(subject))
  \/ Serialize(1)
  \/ ReadBack
  \/ Eq(1, 2)
  \/ Display(1)
  \/ IntoString(1)

SpecLaw == InitLaw /\ [][NextLaw]_vars

(***************************************************************************)
(* Properties.                                                             *)
(***************************************************************************)
ConstructorOps == {"try_from_str", "try_from_String"}

\* The last call was a constructor given the text `subject`.
Constructed == last.op \in ConstructorOps /\ last.input = Str(subject)

\* The value the last call left in its slot holds text t.
Stored(t) == last.ok /\ Live(last.slot) /\ Value(last.slot).inner = t

\* The last call failed with error e and left no value.
Failed(e) == ~last.ok /\ Free(last.slot) /\ last.err = e

\* C1: every live value of every kind holds a text that its kind's validator
\* accepts, whichever way it was created (from borrowed text, from owned
\* text, by deserialization, by clone) ...
C1_AllValid == \A s \in Slots : Live(s) => try_from(ty, Value(s).inner).ok

\* ... and no call changes the text of a value that stays live.
C1_InnerStable ==
  \A s \in Slots : (Live(s) /\ vals'[s] # <<>>) => vals'[s] = vals[s]

\* C1: after any sequence of calls, every live SingleLineString, Identifier
\* and Url holds an inner text that its own validator accepts, and no call
\* changes inner after construction.
C1_ValidatedForLife == []C1_AllValid /\ [][C1_InnerStable]_vars

\* C1 witness: two live values, the second just deserialized from a
\* non-empty string, after the first has been cloned or constructed.
C1_Witness ==
  /\ Live(1) /\ Live(2)
  /\ last.op = "deserialize" /\ last.ok /\ last.slot = 2
  /\ Value(2).inner # <<>>
  /\ Value(1).inner # Value(2).inner

\* C2: round trip.  For every kind and every text x that construction
\* accepts, the serialized form of construct(x) is the string x itself, and
\* deserializing that form succeeds with a value equal to construct(x).
C2_RoundTrip ==
  /\ last.op = "serialize" =>
       (last.out.ty = "str" /\ last.out.text = subject)
  /\ (last.op = "deserialize" /\ last.slot = 2) =>
       (last.ok /\ Live(1) /\ Live(2) /\ eq(Value(2), Value(1)))

\* C2 witness: a Url that only parses with "http://" in front, with a space
\* at its end, has been serialized and read back.
C2_Witness ==
  /\ ty = "Url" /\ ~ParseUrl(subject)
  /\ Len(subject) > 1 /\ subject[Len(subject)] = Space
  /\ last.op = "deserialize" /\ last.slot = 2 /\ last.ok

NoLineTerminator(t) ==
  \A i \in 1..Len(t) : t[i] \notin {10, 13, 11, 12, 133, 8232, 8233}

\* C3: constructing a SingleLineString from a text with none of U+000A,
\* U+000D, U+000B, U+000C, U+0085, U+2028, U+2029 succeeds, and the stored
\* text is that text exactly (the empty text included).
C3_SingleLineAccepted ==
  (ty = "SingleLineString" /\ Constructed /\ NoLineTerminator(subject))
    => Stored(subject)

\* C3 witness: a text of the greatest length, with white space at both ends,
\* was accepted.
C3_Witness ==
  /\ ty = "SingleLineString" /\ Constructed /\ last.ok
  /\ Len(subject) = MaxInputLen
  /\ subject[1] = Space /\ subject[Len(subject)] = Space

\* C4: constructing a SingleLineString from a text with at least one of
\* those code points, at any position, fails with
\* StringContainsLineTerminator and produces no value.
C4_SingleLineRejected ==
  (ty = "SingleLineString" /\ Constructed /\ ~NoLineTerminator(subject))
    => Failed([variant |-> "StringContainsLineTerminator"])

\* C4 witness: a text ending in the paragraph separator, after a CR LF
\* pair, was rejected.
C4_Witness ==
  /\ ty = "SingleLineString" /\ Constructed /\ ~last.ok
  /\ subject = <<13, 10, 8233>>

IdentifierChar(c) == c \in (48..57) \cup (65..90) \cup (97..122) \cup {45}

\* C5: constructing an Identifier from t succeeds, storing t, exactly when
\* every character of t is an ASCII letter, an ASCII digit or '-';
\* otherwise it fails with InvalidIdentifier carrying t.
C5_IdentifierCharacters ==
  (ty = "Identifier" /\ Constructed) =>
    IF \A i \in 1..Len(subject) : IdentifierChar(subject[i])
    THEN Stored(subject)
    ELSE Failed([variant |-> "InvalidIdentifier", input |-> subject])

\* C5 witness: a text of letters with one non-ASCII letter was rejected.
C5_Witness ==
  /\ ty = "Identifier" /\ Constructed /\ ~last.ok
  /\ subject = <<97, 12479, 97>>

\* "http://" followed by t.
WithHttp(t) == <<104, 116, 116, 112, 58, 47, 47>> \o t

\* C6: constructing a Url from t succeeds whenever t parses as a URL, or
\* "http://" followed by t does; the stored text is t, without the prefix.
C6_UrlAccepted ==
  (ty = "Url" /\ Constructed
     /\ (ParseUrl(subject) \/ ParseUrl(WithHttp(subject))))
    => Stored(subject)

\* C6 witness: a text that parses only with the prefix was accepted.
C6_Witness ==
  /\ ty = "Url" /\ Constructed /\ last.ok
  /\ ~ParseUrl(subject) /\ ParseUrl(WithHttp(subject))
  /\ Len(subject) = MaxInputLen

\* C7: constructing a Url from t fails exactly when both t and "http://"
\* followed by t fail to parse; the error is InvalidUrl and carries t.
C7_UrlRejected ==
  (ty = "Url" /\ Constructed) =>
    /\ ~last.ok <=> (~ParseUrl(subject) /\ ~ParseUrl(WithHttp(subject)))
    /\ ~last.ok => Failed([variant |-> "InvalidUrl", input |-> subject])

\* C7 witness: "a@", like "weird@", was rejected.
C7_Witness ==
  /\ ty = "Url" /\ Constructed /\ ~last.ok
  /\ subject = <<97, 64>>

\* C8: deserializing a string that the kind's validator rejects fails,
\* leaves no value, and the error message is "Unable to deserialize into
\* <type>: <display of the validation error>".
C8_DeserializeError ==
  (last.op = "deserialize" /\ last.input.ty = "str"
     /\ ~try_from(ty, last.input.text).ok)
    => Failed([variant |-> "custom",
               msg |-> <<85, 110, 97, 98, 108, 101, 32, 116, 111, 32, 100,
                         101, 115, 101, 114, 105, 97, 108, 105, 122, 101,
                         32, 105, 110, 116, 111, 32>>
                       \o ForStr(ty) \o <<58, 32>>
                       \o ErrorDisplay(try_from(ty, last.input.text).error)])

\* C8 witness: an Identifier with an underscore was refused by deserialize.
C8_Witness ==
  /\ ty = "Identifier" /\ last.op = "deserialize" /\ ~last.ok
  /\ last.input = Str(<<97, 95, 97>>)

\* The traits the string-like behaviours are: equality, hashing, display,
\* conversion to owned text, borrowed access.
StringLikeTraits ==
  {"PartialEq", "Eq", "Hash", "Display", "From<$for> for String", "Deref",
   "Borrow<String>", "Borrow<str>", "AsRef<str>"}
OrderingTraits == {"PartialOrd", "Ord"}

\* Each string-like call returned what the same operation on the stored
\* text gives.
C9_Delegates ==
  /\ last.op = "eq" =>
       last.out.value = (Value(last.slot).inner = Value(last.other).inner)
  /\ last.op = "hash" => last.out.bytes = str_hash(Value(last.slot).inner)
  /\ last.op \in {"fmt", "deref", "borrow_String", "borrow_str", "as_ref"} =>
       last.out.text = Value(last.slot).inner

\* String::from(x) returns the text x held.
C9_IntoStringStep ==
  \A s \in Slots : IntoString(s) => last'.out.text = Value(s).inner

\* C9, as the spec states it: every validated-text type has equality,
\* hashing, ordering, display, conversion to owned text and borrowed access,
\* each giving the result of the same operation on the stored text.
C9_AsStated ==
  /\ (StringLikeTraits \cup OrderingTraits) \subseteq Traits
  /\ C9_Delegates

\* C9, amended: every validated-text type has equality, hashing, display,
\* conversion to owned text and borrowed access, each giving the result of
\* the same operation on the stored text; it has no ordering of its own.
C9_StringLike ==
  /\ [](/\ StringLikeTraits \subseteq Traits
        /\ OrderingTraits \cap Traits = {}
        /\ C9_Delegates)
  /\ [][C9_IntoStringStep]_vars

\* C9 witness: two values of equal length and different text were compared.
C9_Witness ==
  /\ last.op = "eq" /\ ~last.out.value
  /\ Len(Value(last.slot).inner) = Len(Value(last.other).inner)
  /\ Value(last.slot).inner # <<>>

\* The variant each validator fails with.
OwnVariant(k) ==
  CASE k = "SingleLineString" -> "StringContainsLineTerminator"
    [] k = "Identifier" -> "InvalidIdentifier"
    [] k = "Url" -> "InvalidUrl"

\* Each validator fails with its own variant only, and no two share one.
C10_OwnVariantOnly ==
  /\ \A j, k \in Kinds : OwnVariant(j) = OwnVariant(k) => j = k
  /\ {OwnVariant(k) : k \in Kinds} \subseteq ErrorVariants
  /\ (last.op \in ConstructorOps /\ ~last.ok) => last.err.variant = OwnVariant(ty)

\* C10, as the spec states it: the validation errors are exactly five
\* kinds, one per validator and two reserved ones, and each validator fails
\* only with its own.
C10_AsStated ==
  /\ Cardinality(ErrorVariants) = 5
  /\ C10_OwnVariantOnly

\* C10, amended: the validation errors are exactly six kinds, one per
\* validator and three that no validator of this file builds
\* (InvalidBase64, BigPattern, InvalidClusterName), and each validator fails
\* only with its own.
C10_SixVariants ==
  /\ Cardinality(ErrorVariants) = 6
  /\ ErrorVariants \ {OwnVariant(k) : k \in Kinds}
       = {"InvalidBase64", "BigPattern", "InvalidClusterName"}
  /\ C10_OwnVariantOnly

\* C10 witness: a Url constructor failed.
C10_Witness ==
  /\ ty = "Url" /\ last.op \in ConstructorOps /\ ~last.ok
  /\ last.err.variant = "InvalidUrl"

=============================================================================
